---- MODULE Spec2Model ----
(***************************************************************************)
(* Twitch live-session metrics accumulator and periodic-flush pipeline.    *)
(*                                                                         *)
(* The repository holds the tracker twice: the modular variant             *)
(* (chat_handler.py, stream_monitor.py, data_storage.py) and the           *)
(* monolithic variant (apps/twitch_analytic_tracker.py).  The variable     *)
(* impl says which of the two programs is running.  Every handler is one   *)
(* atomic action; the S3 calls a handler makes are numbered 1, 2, ... in   *)
(* the order the code makes them and the input `faults' is the set of      *)
(* call numbers that raise.                                                 *)
(***************************************************************************)
EXTENDS Integers, Sequences, FiniteSets, TLC

----
(* Program constants *)

ChatFlushThreshold == 50
LargeBatchThreshold == 1000
ViewerFlushThreshold == 10
StreamFlushThreshold == 10
ViewerRetentionCap == 60
ChatActivityCap == 30
RecentSubscribersCap == 20
RecentEventsCap == 100

----
(* Bounds of the explored environment *)

MaxChatters == 2
MaxViewerPolls == 3
MaxStarts == 2
MaxFaults == 1
MaxChatBurst == 101
MaxLiveChat == 51
MaxLargeBatch == 1001
MaxSubBurst == 22
MaxPollBurst == 62
MaxMinutes == 31
MaxS3Calls == 9
MaxTasks == 2
MaxRaceChat == 50
MaxWebClock == 2
MaxWebRequests == 2
MaxLogins == 2

----
(* Input domains *)

(* stream_started_at before the first stream: Python None (falsy) *)
None == [minute |-> 0, tz |-> "None"]
Impls == {"modular", "monolithic"}
Senders == {"alice", "bob"}
ViewerCountValues == {50, 60, 80}
PlatformTz == {"Z"}
Categories == {"chat_metrics", "viewer_stats", "stream_metrics", "subscribers"}

(* no call fails, exactly one call fails, or every call fails (outage) *)
SubResponses == {<<>>, <<7>>}
ClipReplies == {<<>>, <<[id |-> 1, view_count |-> 10, game_id |-> 1]>>}
FaultPatterns == {{}} \cup {{k} : k \in 1..MaxS3Calls} \cup {1..MaxS3Calls}

----
(* Python helpers *)

Max(a, b) == IF a >= b THEN a ELSE b

(* the slice taken from the front of the list: seq[:n] *)
LastN_front(s, n) == IF Len(s) <= n THEN s ELSE SubSeq(s, 1, n)

(* seq[-n:] : the last n elements, the whole list when it is shorter *)
LastN(s, n) == IF Len(s) <= n THEN s ELSE SubSeq(s, Len(s) - n + 1, Len(s))

Range(s) == {s[i] : i \in 1..Len(s)}

(* datetime.fromisoformat(s.replace('Z', '+00:00')): an offset-aware value *)
(* when the text carries the 'Z' suffix, a naive one otherwise             *)
FromIsoformat(started) == [minute |-> started.minute, aware |-> started.tz = "Z"]

(* datetime.now() - dt: subtracting an aware value from the naive now()    *)
(* raises TypeError                                                        *)
NaiveNowMinus(now, dt) ==
    IF dt.aware THEN [TypeError |-> TRUE, value |-> 0]
    ELSE [TypeError |-> FALSE, value |-> now - dt.minute]

(* datetime.now(timezone.utc) - dt: raises TypeError for a naive dt        *)
UtcNowMinus(now, dt) ==
    IF dt.aware THEN [TypeError |-> FALSE, value |-> now - dt.minute]
    ELSE [TypeError |-> TRUE, value |-> 0]

(* text.split("\n", 1)[1]: everything after the first line                 *)
SplitAfterFirstLine(lines) == Tail(lines)

----
(* State *)

VARIABLES
    impl,               \* which of the two trackers is running
    live_metrics,       \* the live_metrics dict
    chat_messages,      \* batch buffer of chat records
    viewer_counts,      \* batch buffer of viewer samples
    stream_metrics,     \* batch buffer of stream samples
    subscriber_events,  \* batch buffer of subscription records
    s3,                 \* the bucket: object key -> body of the object
    backup,             \* timestamps of the events written to data/backup/
    clock,              \* datetime.now(): strictly increasing event timestamp
    minute,             \* datetime.now() truncated to the minute
    budget,             \* what the environment may still do
    obs,                \* history of the inputs, for stating the properties
    last,               \* report on the handler that ran last
    scheduler_thread,   \* the run_scheduler thread: "running" or "terminated"
    race,               \* where the chat thread and the scheduler thread stand
                        \* inside on_chat_message and the stream-end flush
    web                 \* the EventSub web application: its globals, its files
                        \* and the requests it has answered

vars == <<impl, live_metrics, chat_messages, viewer_counts, stream_metrics,
          subscriber_events, s3, backup, clock, minute, budget, obs, last,
          scheduler_thread, race, web>>

(* The working state of a running handler: the program state, the number k *)
(* of S3 calls made so far, whether an exception is propagating, and the   *)
(* reports of the flushes carried out.                                     *)
Ctx == [lm |-> live_metrics, chat_messages |-> chat_messages,
        viewer_counts |-> viewer_counts, stream_metrics |-> stream_metrics,
        subscriber_events |-> subscriber_events, s3 |-> s3, backup |-> backup,
        k |-> 0, raised |-> FALSE, flushes |-> <<>>]

----
(* S3 primitives *)

SnapshotKey(cat) == <<"snapshot", cat>>
CsvKey(cat) == <<"csv", cat>>
DailyKey(cat) == <<"daily", cat>>

Store(objects, key, body) == [x \in DOMAIN objects \cup {key} |->
                                 IF x = key THEN body ELSE objects[x]]

(* s3_client.put_object(...): call number k+1; raises when it is faulty *)
put_object(c, F, key, body) ==
    IF (c.k + 1) \in F
    THEN [c EXCEPT !.k = @ + 1, !.raised = TRUE]
    ELSE [c EXCEPT !.k = @ + 1, !.s3 = Store(@, key, body)]

(* data_storage.save_to_s3: put_object inside try/except, returns a bool *)
(* that no caller looks at                                               *)
save_to_s3(c, F, key, body) ==
    [put_object(c, F, key, body) EXCEPT !.raised = FALSE]

(* s3_client.get_object(...) used as an existence test: call number k+1; *)
(* raises when the object is absent or the call is faulty                *)
GetSucceeds(c, F, key) == key \in DOMAIN c.s3 /\ (c.k + 1) \notin F

(* DataFrame.to_csv(index=False, header=h): the lines of the CSV text, one *)
(* line per record; a record is identified by its timestamp               *)
CsvLine(row) == [kind |-> "row", timestamp |-> row.timestamp]
CsvRows(rows) == [i \in 1..Len(rows) |-> CsvLine(rows[i])]
CsvHeader == [kind |-> "header", timestamp |-> 0]
to_csv(rows, withHeader) ==
    IF withHeader THEN <<CsvHeader>> \o CsvRows(rows) ELSE CsvRows(rows)

(* What one call of a save_* routine on a non-empty buffer did *)
FlushReport(cat, batch, cleared, snapshotOk, dailyPuts) ==
    [category |-> cat, batch |-> batch, cleared |-> cleared,
     snapshot_ok |-> snapshotOk, daily_puts |-> dailyPuts]

Report(c, r) == [c EXCEPT !.flushes = Append(@, r)]

----
(* Durable sink, modular variant (data_storage.py) *)

(* _append_to_daily_file: every exception is caught and logged, also the *)
(* IndexError of split("\n", 1)[1] on the empty text of a frame without  *)
(* rows                                                                  *)
append_to_daily_file(c, F, cat, rows) ==
    LET daily_exists == GetSucceeds(c, F, DailyKey(cat))
        c1 == [c EXCEPT !.k = @ + 1]
        daily_buffer == to_csv(rows, ~daily_exists)
    IN IF daily_exists
       THEN IF daily_buffer = <<>> THEN c1
            ELSE [put_object(c1, F, DailyKey(cat), SplitAfterFirstLine(daily_buffer))
                     EXCEPT !.raised = FALSE]
       ELSE save_to_s3(c1, F, DailyKey(cat), daily_buffer)

(* the common body of save_subscriber_data, save_viewer_stats and *)
(* save_stream_metrics: JSON snapshot, CSV snapshot, daily file, clear *)
SaveBatch(c, F, cat, buf) ==
    IF c[buf] = <<>> THEN c
    ELSE LET batch == c[buf]
             c1 == save_to_s3(c, F, SnapshotKey(cat), batch)
             c2 == save_to_s3(c1, F, CsvKey(cat), to_csv(batch, TRUE))
             c3 == append_to_daily_file(c2, F, cat, batch)
             c4 == [c3 EXCEPT ![buf] = <<>>]
         IN Report(c4, FlushReport(cat, batch, TRUE, (c.k + 1) \notin F, 1))

(* the flush gated by a size threshold like the other buffers *)
save_subscriber_data_gated(c, F) ==
    IF Len(c.subscriber_events) >= 2
    THEN SaveBatch(c, F, "subscribers", "subscriber_events") ELSE c

save_subscriber_data(c, F) == SaveBatch(c, F, "subscribers", "subscriber_events")

save_viewer_stats(c, F) == SaveBatch(c, F, "viewer_stats", "viewer_counts")

save_stream_metrics(c, F) == SaveBatch(c, F, "stream_metrics", "stream_metrics")

(* the flush that keeps the batch whenever one of its S3 calls failed *)
save_chat_metrics_keep_failed(c, F) ==
    IF c.chat_messages = <<>> THEN c
    ELSE LET batch == c.chat_messages
             c1 == save_to_s3(c, F, <<"metrics", "chat_metrics">>, [message_count |-> Len(batch)])
             c2 == save_to_s3(c1, F, SnapshotKey("chat_metrics"), batch)
             c3 == save_to_s3(c2, F, CsvKey("chat_metrics"), to_csv(batch, TRUE))
             c4 == append_to_daily_file(c3, F, "chat_metrics", batch)
             failed == \E j \in (c.k + 1)..c4.k : j \in F
             c5 == IF failed THEN c4 ELSE [c4 EXCEPT !.chat_messages = <<>>]
         IN Report(c5, FlushReport("chat_metrics", batch, ~failed, (c1.k + 1) \notin F, 1))

(* the flush that removes only the first record of the batch *)
save_chat_metrics_partial(c, F) ==
    IF c.chat_messages = <<>> THEN c
    ELSE LET batch == c.chat_messages
             c1 == save_to_s3(c, F, <<"metrics", "chat_metrics">>, [message_count |-> Len(batch)])
             c2 == save_to_s3(c1, F, SnapshotKey("chat_metrics"), batch)
             c3 == save_to_s3(c2, F, CsvKey("chat_metrics"), to_csv(batch, TRUE))
             c4 == append_to_daily_file(c3, F, "chat_metrics", batch)
             c5 == [c4 EXCEPT !.chat_messages = Tail(@)]
         IN Report(c5, FlushReport("chat_metrics", batch, TRUE, (c1.k + 1) \notin F, 1))

(* save_chat_metrics: as above, preceded by the metrics object; a batch of *)
(* more than 1000 messages is put with a bare put_object, whose exception  *)
(* the routine's except clause catches before the buffer is cleared        *)
save_chat_metrics(c, F) ==
    IF c.chat_messages = <<>> THEN c
    ELSE LET batch == c.chat_messages
             cat == "chat_metrics"
             c1 == save_to_s3(c, F, <<"metrics", cat>>,
                              [message_count |-> Len(batch),
                               unique_chatters |-> Cardinality({batch[i].sender : i \in 1..Len(batch)})])
             large == Len(batch) > LargeBatchThreshold
             c2 == IF large THEN put_object(c1, F, SnapshotKey(cat), batch)
                   ELSE save_to_s3(c1, F, SnapshotKey(cat), batch)
             snapshotOk == (c1.k + 1) \notin F
         IN IF c2.raised
            THEN Report([c2 EXCEPT !.raised = FALSE],
                        FlushReport(cat, batch, FALSE, FALSE, 0))
            ELSE LET c3 == save_to_s3(c2, F, CsvKey(cat), to_csv(batch, TRUE))
                     c4 == append_to_daily_file(c3, F, cat, batch)
                     c5 == [c4 EXCEPT !.chat_messages = <<>>]
                 IN Report(c5, FlushReport(cat, batch, TRUE, snapshotOk, 1))

(* save_event_to_s3: save_to_s3 never raises, so the backup branch of the *)
(* except clause is never entered                                         *)
save_event_to_s3(c, F, event_type, event_data) ==
    LET objects == IF <<"raw_events">> \in DOMAIN c.s3 THEN c.s3[<<"raw_events">>] ELSE {}
    IN save_to_s3(c, F, <<"raw_events">>, objects \cup {event_data.timestamp})

----
(* Durable sink, monolithic variant (apps/twitch_analytic_tracker.py): the *)
(* snapshot puts are bare put_object calls, so their exception leaves the  *)
(* routine before the buffer is cleared                                    *)

(* the daily-file block inlined in each save_* method, inside try/except *)
Tracker_append_daily(c, F, cat, rows) ==
    LET daily_exists == GetSucceeds(c, F, DailyKey(cat))
        c1 == [c EXCEPT !.k = @ + 1]
        daily_buffer == to_csv(rows, ~daily_exists)
        body == IF daily_exists THEN SplitAfterFirstLine(daily_buffer)
                ELSE daily_buffer
    IN [put_object(c1, F, DailyKey(cat), body) EXCEPT !.raised = FALSE]

(* a flush that clears the buffer although its CSV snapshot was not stored *)
Tracker_SaveBatch_clear_early(c, F, cat, buf) ==
    IF c[buf] = <<>> THEN c
    ELSE LET batch == c[buf]
             c1 == put_object(c, F, SnapshotKey(cat), batch)
             c2 == put_object([c1 EXCEPT ![buf] = <<>>], F, CsvKey(cat), to_csv(batch, TRUE))
         IN IF c1.raised
            THEN Report(c1, FlushReport(cat, batch, FALSE, FALSE, 0))
            ELSE IF c2.raised
            THEN Report(c2, FlushReport(cat, batch, TRUE, TRUE, 0))
            ELSE Report(Tracker_append_daily(c2, F, cat, batch),
                        FlushReport(cat, batch, TRUE, TRUE, 1))

Tracker_SaveBatch(c, F, cat, buf) ==
    IF c[buf] = <<>> THEN c
    ELSE LET batch == c[buf]
             c1 == put_object(c, F, SnapshotKey(cat), batch)
             c2 == put_object(c1, F, CsvKey(cat), to_csv(batch, TRUE))
         IN IF c1.raised
            THEN Report(c1, FlushReport(cat, batch, FALSE, FALSE, 0))
            ELSE IF c2.raised
            THEN Report(c2, FlushReport(cat, batch, FALSE, TRUE, 0))
            ELSE LET c3 == Tracker_append_daily(c2, F, cat, batch)
                     c4 == [c3 EXCEPT ![buf] = <<>>]
                 IN Report(c4, FlushReport(cat, batch, TRUE, TRUE, 1))

Tracker_save_subscriber_data(c, F) ==
    Tracker_SaveBatch(c, F, "subscribers", "subscriber_events")

Tracker_save_viewer_stats(c, F) ==
    Tracker_SaveBatch(c, F, "viewer_stats", "viewer_counts")

Tracker_save_stream_metrics(c, F) ==
    Tracker_SaveBatch(c, F, "stream_metrics", "stream_metrics")

Tracker_save_chat_metrics(c, F) ==
    IF c.chat_messages = <<>> THEN c
    ELSE LET batch == c.chat_messages
             cat == "chat_metrics"
             c1 == put_object(c, F, <<"metrics", cat>>,
                              [message_count |-> Len(batch),
                               unique_chatters |-> Cardinality({batch[i].sender : i \in 1..Len(batch)})])
             c2 == put_object(c1, F, SnapshotKey(cat), batch)
             c3 == put_object(c2, F, CsvKey(cat), to_csv(batch, TRUE))
         IN IF c1.raised
            THEN Report(c1, FlushReport(cat, batch, FALSE, FALSE, 0))
            ELSE IF c2.raised
            THEN Report(c2, FlushReport(cat, batch, FALSE, FALSE, 0))
            ELSE IF c3.raised
            THEN Report(c3, FlushReport(cat, batch, FALSE, TRUE, 0))
            ELSE LET c4 == Tracker_append_daily(c3, F, cat, batch)
                     c5 == [c4 EXCEPT !.chat_messages = <<>>]
                 IN Report(c5, FlushReport(cat, batch, TRUE, TRUE, 1))

(* save_event_to_s3: a failed put is caught and the event is written to *)
(* the local backup directory                                           *)
Tracker_save_event_to_s3(c, F, event_type, event_data) ==
    LET objects == IF <<"raw_events">> \in DOMAIN c.s3 THEN c.s3[<<"raw_events">>] ELSE {}
        c1 == put_object(c, F, <<"raw_events">>, objects \cup {event_data.timestamp})
    IN IF c1.raised
       THEN [c1 EXCEPT !.raised = FALSE, !.backup = @ \cup {event_data.timestamp}]
       ELSE c1

----
(* Event ingestion (chat_handler.py; the methods of the monolithic tracker *)
(* have the same body and call the tracker's own save_* methods)           *)

(* the trim applied one element too late: if len(seq) > cap + 1 *)
KeepLast_late(s, cap) == IF Len(s) > cap + 1 THEN LastN(s, cap) ELSE s

(* if len(seq) > cap: seq = seq[-cap:] *)
KeepLast(s, cap) == IF Len(s) > cap THEN LastN(s, cap) ELSE s

(* unique_chatters: the distinct senders of the chat buffer *)
UniqueChatters(buffer) == Cardinality({buffer[i].sender : i \in 1..Len(buffer)})

(* the minute bucket appended for every message, without the search for *)
(* an entry of the current minute                                       *)
UpdateChatActivity_append(activity, current_minute) ==
    KeepLast(Append(activity, [timestamp |-> current_minute, message_count |-> 1]),
             ChatActivityCap)

(* the minute bucket of chat_activity: increment the first entry of the *)
(* current minute, or append a new entry and keep the last 30           *)
UpdateChatActivity(activity, current_minute) ==
    LET hits == {i \in 1..Len(activity) : activity[i].timestamp = current_minute}
    IN IF hits # {}
       THEN LET i == CHOOSE x \in hits : \A y \in hits : x <= y
            IN [activity EXCEPT ![i].message_count = @ + 1]
       ELSE KeepLast(Append(activity, [timestamp |-> current_minute, message_count |-> 1]),
                     ChatActivityCap)

(* chat_messages_per_minute: computed only while live; the subtraction *)
(* raises TypeError for an offset-aware stream_started_at              *)
UpdateMessagesPerMinute(c, now_minute) ==
    IF c.lm.is_live /\ c.lm.stream_started_at # None
    THEN LET elapsed == NaiveNowMinus(now_minute, FromIsoformat(c.lm.stream_started_at))
         IN IF elapsed.TypeError
            THEN [c EXCEPT !.raised = TRUE]
            ELSE [c EXCEPT !.lm.chat_messages_per_minute =
                               c.lm.total_chat_messages \div Max(1, elapsed.value)]
    ELSE c

ChatMessageBody(c, F, now, now_minute, sender, tracker) ==
    LET message_data == [timestamp |-> now, sender |-> sender]
        c1 == [c EXCEPT !.chat_messages = Append(@, message_data)]
        c2 == IF tracker THEN Tracker_save_event_to_s3(c1, F, "chat_message", message_data)
              ELSE save_event_to_s3(c1, F, "chat_message", message_data)
        c3 == [c2 EXCEPT !.lm.total_chat_messages = @ + 1,
                         !.lm.unique_chatters = UniqueChatters(c2.chat_messages),
                         !.lm.recent_events = Append(@, [timestamp |-> now, type |-> "chat"]),
                         !.lm.chat_activity = UpdateChatActivity(@, now_minute)]
        c4 == UpdateMessagesPerMinute(c3, now_minute)
    IN IF c4.raised THEN c4
       ELSE IF Len(c4.chat_messages) >= ChatFlushThreshold
            THEN IF tracker THEN Tracker_save_chat_metrics(c4, F)
                 ELSE save_chat_metrics(c4, F)
       ELSE c4

(* on_chat_message up to the chat_activity update: the record is appended, *)
(* stored as an event and counted                                         *)
ChatMessageRecorded(c, F, now, now_minute, sender) ==
    LET message_data == [timestamp |-> now, sender |-> sender]
        c1 == [c EXCEPT !.chat_messages = Append(@, message_data)]
        c2 == save_event_to_s3(c1, F, "chat_message", message_data)
    IN [c2 EXCEPT !.lm.total_chat_messages = @ + 1,
                  !.lm.unique_chatters = UniqueChatters(c2.chat_messages),
                  !.lm.recent_events = Append(@, [timestamp |-> now, type |-> "chat"]),
                  !.lm.chat_activity = UpdateChatActivity(@, now_minute)]

on_chat_message(c, F, now, now_minute, sender) ==
    ChatMessageBody(c, F, now, now_minute, sender, FALSE)

Tracker_on_chat_message(c, F, now, now_minute, sender) ==
    ChatMessageBody(c, F, now, now_minute, sender, TRUE)

SubscriptionBody(c, F, now, user, tracker) ==
    LET sub_data == [timestamp |-> now, user |-> user]
        c1 == [c EXCEPT !.subscriber_events = Append(@, sub_data)]
        c2 == IF tracker THEN Tracker_save_event_to_s3(c1, F, "subscription", sub_data)
              ELSE save_event_to_s3(c1, F, "subscription", sub_data)
        c3 == [c2 EXCEPT !.lm.new_subs_today = @ + 1,
                         !.lm.recent_subscribers =
                             KeepLast(Append(@, sub_data), RecentSubscribersCap),
                         !.lm.recent_events =
                             KeepLast(Append(@, [timestamp |-> now, type |-> "subscription"]),
                                      RecentEventsCap)]
    IN IF tracker THEN Tracker_save_subscriber_data(c3, F)
       ELSE save_subscriber_data(c3, F)

on_subscription(c, F, now, user) ==
    SubscriptionBody(c, F, now, user, FALSE)

Tracker_on_subscription(c, F, now, user) ==
    SubscriptionBody(c, F, now, user, TRUE)

RaidBody(c, F, now, tracker) ==
    LET raid_data == [timestamp |-> now]
        c1 == IF tracker THEN Tracker_save_event_to_s3(c, F, "raid", raid_data)
              ELSE save_event_to_s3(c, F, "raid", raid_data)
    IN [c1 EXCEPT !.lm.recent_events =
                      KeepLast(Append(@, [timestamp |-> now, type |-> "raid"]),
                               RecentEventsCap)]

on_raid(c, F, now) == RaidBody(c, F, now, FALSE)

Tracker_on_raid(c, F, now) == RaidBody(c, F, now, TRUE)

----
(* Poll-driven stream status, modular variant (stream_monitor.py) *)

StatusKey == <<"status">>

(* the stream start that keeps the peak of an earlier stream *)
handle_stream_start_keep_peak(c, F, stream_data, timestamp) ==
    LET c1 == [c EXCEPT !.lm.is_live = TRUE,
                        !.lm.stream_started_at = stream_data.started_at,
                        !.lm.current_viewers = stream_data.viewer_count,
                        !.lm.peak_viewers = Max(@, stream_data.viewer_count),
                        !.lm.recent_events =
                            Append(@, [timestamp |-> timestamp, type |-> "stream"])]
    IN save_to_s3(c1, F, <<"stream_start">>, [timestamp |-> timestamp])

(* _handle_stream_start *)
handle_stream_start(c, F, stream_data, timestamp) ==
    LET c1 == [c EXCEPT !.lm.is_live = TRUE,
                        !.lm.stream_started_at = stream_data.started_at,
                        !.lm.current_viewers = stream_data.viewer_count,
                        !.lm.peak_viewers = stream_data.viewer_count,
                        !.lm.recent_events =
                            Append(@, [timestamp |-> timestamp, type |-> "stream"])]
    IN save_to_s3(c1, F, <<"stream_start">>, [timestamp |-> timestamp])

(* the peak taken as the minimum instead of the maximum *)
PeakAfterSample_min(peak, viewer_count) ==
    IF peak <= viewer_count THEN peak ELSE viewer_count

(* peak_viewers = max(peak_viewers, viewer_count) *)
PeakAfterSample(peak, viewer_count) == Max(peak, viewer_count)

(* the live-poll updates of live_metrics shared by both variants *)
UpdateLiveViewers(c, stream_data, timestamp) ==
    [c EXCEPT !.lm.current_viewers = stream_data.viewer_count,
              !.lm.peak_viewers = PeakAfterSample(@, stream_data.viewer_count),
              !.lm.viewer_retention =
                  KeepLast(Append(@, [timestamp |-> timestamp,
                                      viewer_count |-> stream_data.viewer_count]),
                           ViewerRetentionCap)]

(* the body of the coroutine _update_stream_metrics *)
update_stream_metrics(c, F, stream_data, timestamp, now_minute) ==
    LET c1 == UpdateLiveViewers(c, stream_data, timestamp)
        elapsed == IF c1.lm.stream_started_at # None
                   THEN NaiveNowMinus(now_minute, FromIsoformat(c1.lm.stream_started_at))
                   ELSE [TypeError |-> FALSE, value |-> 0]
    IN IF elapsed.TypeError THEN [c1 EXCEPT !.raised = TRUE]
       ELSE LET c2 == [c1 EXCEPT !.stream_metrics =
                                     Append(@, [timestamp |-> timestamp,
                                                viewer_count |-> stream_data.viewer_count,
                                                stream_duration |-> elapsed.value]),
                                 !.viewer_counts =
                                     Append(@, [timestamp |-> timestamp,
                                                viewer_count |-> stream_data.viewer_count])]
                c3 == save_to_s3(c2, F, <<"viewer_count">>, [timestamp |-> timestamp])
                c4 == IF Len(c3.viewer_counts) >= ViewerFlushThreshold
                      THEN save_viewer_stats(c3, F) ELSE c3
            IN IF Len(c4.stream_metrics) >= StreamFlushThreshold
               THEN save_stream_metrics(c4, F) ELSE c4

(* self._update_stream_metrics(stream_data, timestamp) without await: the *)
(* call of an async def only builds a coroutine object, its body never    *)
(* runs                                                                   *)
CallWithoutAwait(c, coroutine_result) == c

(* the stream end that leaves the chat buffer to its size threshold *)
handle_stream_end_no_chat(c, F, timestamp, now_minute) ==
    LET c1 == [c EXCEPT !.lm.is_live = FALSE]
        duration == IF c1.lm.stream_started_at # None
                    THEN UtcNowMinus(now_minute, FromIsoformat(c1.lm.stream_started_at))
                    ELSE [TypeError |-> FALSE, value |-> 0]
        c2 == IF c1.lm.stream_started_at # None
              THEN save_to_s3([c1 EXCEPT !.lm.recent_events =
                                   Append(@, [timestamp |-> timestamp, type |-> "stream"])],
                              F, <<"stream_end">>,
                              [timestamp |-> timestamp,
                               peak_viewers |-> c1.lm.peak_viewers,
                               unique_chatters |-> c1.lm.unique_chatters,
                               total_chat_messages |-> c1.lm.total_chat_messages])
              ELSE c1
    IN IF duration.TypeError THEN [c1 EXCEPT !.raised = TRUE]
       ELSE save_stream_metrics(save_viewer_stats(c2, F), F)

(* _handle_stream_end up to the import of chat_messages: is_live is reset, *)
(* the end event is stored and the viewer and stream buffers are flushed  *)
stream_end_before_chat_flush(c, F, timestamp, now_minute) ==
    LET c1 == [c EXCEPT !.lm.is_live = FALSE]
        duration == IF c1.lm.stream_started_at # None
                    THEN UtcNowMinus(now_minute, FromIsoformat(c1.lm.stream_started_at))
                    ELSE [TypeError |-> FALSE, value |-> 0]
        c2 == IF c1.lm.stream_started_at # None
              THEN save_to_s3([c1 EXCEPT !.lm.recent_events =
                                   Append(@, [timestamp |-> timestamp, type |-> "stream"])],
                              F, <<"stream_end">>,
                              [timestamp |-> timestamp,
                               peak_viewers |-> c1.lm.peak_viewers,
                               unique_chatters |-> c1.lm.unique_chatters,
                               total_chat_messages |-> c1.lm.total_chat_messages])
              ELSE c1
    IN IF duration.TypeError THEN [c1 EXCEPT !.raised = TRUE]
       ELSE save_stream_metrics(save_viewer_stats(c2, F), F)

(* _handle_stream_end *)
handle_stream_end(c, F, timestamp, now_minute) ==
    LET c1 == [c EXCEPT !.lm.is_live = FALSE]
        duration == IF c1.lm.stream_started_at # None
                    THEN UtcNowMinus(now_minute, FromIsoformat(c1.lm.stream_started_at))
                    ELSE [TypeError |-> FALSE, value |-> 0]
        c2 == IF c1.lm.stream_started_at # None
              THEN save_to_s3([c1 EXCEPT !.lm.recent_events =
                                   Append(@, [timestamp |-> timestamp, type |-> "stream"])],
                              F, <<"stream_end">>,
                              [timestamp |-> timestamp,
                               peak_viewers |-> c1.lm.peak_viewers,
                               unique_chatters |-> c1.lm.unique_chatters,
                               total_chat_messages |-> c1.lm.total_chat_messages])
              ELSE c1
    IN IF duration.TypeError THEN [c1 EXCEPT !.raised = TRUE]
       ELSE save_chat_metrics(save_stream_metrics(save_viewer_stats(c2, F), F), F)

(* the status write that also lists the snapshot among the recent events *)
save_stream_status_event(c, F, status_data) ==
    LET readable == GetSucceeds(c, F, StatusKey)
        c1 == [c EXCEPT !.k = @ + 1,
                        !.lm.recent_events =
                            Append(@, [timestamp |-> status_data.timestamp, type |-> "status"])]
        existing_data == IF readable THEN Append(c.s3[StatusKey], status_data)
                         ELSE <<status_data>>
    IN save_to_s3(c1, F, StatusKey, existing_data)

(* _save_stream_status: get_from_s3 returns None on any failure, *)
(* json.loads(None) raises and the inner except starts a new array *)
save_stream_status(c, F, status_data) ==
    LET readable == GetSucceeds(c, F, StatusKey)
        c1 == [c EXCEPT !.k = @ + 1]
        existing_data == IF readable THEN Append(c.s3[StatusKey], status_data)
                         ELSE <<status_data>>
    IN save_to_s3(c1, F, StatusKey, existing_data)

(* check_stream_status: stream_info is the data list of the reply; every *)
(* exception is caught and logged by the outer except                    *)
check_stream_status(c, F, query_ok, stream_info, timestamp, now_minute) ==
    IF ~query_ok THEN c
    ELSE LET is_live == stream_info # <<>>
             status_data == [timestamp |-> timestamp, is_live |-> is_live,
                             viewer_count |-> IF is_live THEN stream_info[1].viewer_count ELSE 0]
             c1 == IF is_live
                   THEN IF ~c.lm.is_live
                        THEN handle_stream_start(c, F, stream_info[1], timestamp)
                        ELSE CallWithoutAwait(c,
                                 update_stream_metrics(c, F, stream_info[1], timestamp, now_minute))
                   ELSE IF c.lm.is_live
                        THEN handle_stream_end(c, F, timestamp, now_minute)
                        ELSE c
         IN IF c1.raised THEN [c1 EXCEPT !.raised = FALSE]
            ELSE save_stream_status(c1, F, status_data)

----
(* Poll-driven stream status, monolithic variant *)
(* (TwitchAnalyticsTracker.check_stream_status)  *)

(* a stream start that marks the stream live only once its marker is stored *)
Tracker_stream_start_marker_first(c, F, stream_data, timestamp) ==
    LET c1 == put_object(c, F, <<"stream_start">>, [timestamp |-> timestamp])
    IN IF c1.raised THEN c1
       ELSE [c1 EXCEPT !.lm.is_live = TRUE,
                       !.lm.stream_started_at = stream_data.started_at,
                       !.lm.current_viewers = stream_data.viewer_count,
                       !.lm.peak_viewers = stream_data.viewer_count,
                       !.lm.recent_events =
                           Append(@, [timestamp |-> timestamp, type |-> "stream"])]

(* the "stream just started" branch: the start marker is a bare put_object *)
Tracker_stream_start(c, F, stream_data, timestamp) ==
    LET c1 == [c EXCEPT !.lm.is_live = TRUE,
                        !.lm.stream_started_at = stream_data.started_at,
                        !.lm.current_viewers = stream_data.viewer_count,
                        !.lm.peak_viewers = stream_data.viewer_count,
                        !.lm.recent_events =
                            Append(@, [timestamp |-> timestamp, type |-> "stream"])]
    IN put_object(c1, F, <<"stream_start">>, [timestamp |-> timestamp])

(* the "update current metrics" branch: the stream_duration entry of the  *)
(* record subtracts stream_started_at from the naive now() before the     *)
(* record is appended                                                     *)
Tracker_stream_update(c, F, stream_data, timestamp, now_minute) ==
    LET c1 == UpdateLiveViewers(c, stream_data, timestamp)
        elapsed == NaiveNowMinus(now_minute, FromIsoformat(c1.lm.stream_started_at))
    IN IF elapsed.TypeError THEN [c1 EXCEPT !.raised = TRUE]
       ELSE LET c2 == [c1 EXCEPT !.stream_metrics =
                                     Append(@, [timestamp |-> timestamp,
                                                viewer_count |-> stream_data.viewer_count,
                                                stream_duration |-> elapsed.value]),
                                 !.viewer_counts =
                                     Append(@, [timestamp |-> timestamp,
                                                viewer_count |-> stream_data.viewer_count])]
                c3 == put_object(c2, F, <<"viewer_count">>, [timestamp |-> timestamp])
                c4 == IF Len(c3.viewer_counts) >= ViewerFlushThreshold
                      THEN Tracker_save_viewer_stats(c3, F) ELSE c3
            IN IF c3.raised THEN c3
               ELSE IF c4.raised THEN c4
               ELSE IF Len(c4.stream_metrics) >= StreamFlushThreshold
               THEN Tracker_save_stream_metrics(c4, F) ELSE c4

(* the "stream just ended" branch *)
Tracker_stream_end(c, F, timestamp, now_minute) ==
    LET c1 == [c EXCEPT !.lm.is_live = FALSE]
        duration == IF c1.lm.stream_started_at # None
                    THEN UtcNowMinus(now_minute, FromIsoformat(c1.lm.stream_started_at))
                    ELSE [TypeError |-> FALSE, value |-> 0]
        c2 == IF c1.lm.stream_started_at # None
              THEN put_object([c1 EXCEPT !.lm.recent_events =
                                   Append(@, [timestamp |-> timestamp, type |-> "stream"])],
                              F, <<"stream_end">>,
                              [timestamp |-> timestamp,
                               peak_viewers |-> c1.lm.peak_viewers,
                               unique_chatters |-> c1.lm.unique_chatters,
                               total_chat_messages |-> c1.lm.total_chat_messages])
              ELSE c1
        c3 == Tracker_save_viewer_stats(c2, F)
        c4 == Tracker_save_stream_metrics(c3, F)
    IN IF duration.TypeError THEN [c1 EXCEPT !.raised = TRUE]
       ELSE IF c2.raised THEN c2
       ELSE IF c3.raised THEN c3
       ELSE IF c4.raised THEN c4
       ELSE Tracker_save_chat_metrics(c4, F)

(* the status-log block: a failed get_object goes to the bare except, *)
(* which creates a new array                                          *)
Tracker_save_stream_status(c, F, status_data) ==
    LET readable == GetSucceeds(c, F, StatusKey)
        c1 == [c EXCEPT !.k = @ + 1]
        existing_data == IF readable THEN Append(c.s3[StatusKey], status_data)
                         ELSE <<status_data>>
        c2 == put_object(c1, F, StatusKey, existing_data)
    IN IF readable /\ c2.raised
       THEN [put_object([c2 EXCEPT !.raised = FALSE], F, StatusKey, <<status_data>>)
                EXCEPT !.raised = FALSE]
       ELSE [c2 EXCEPT !.raised = FALSE]

Tracker_check_stream_status(c, F, query_ok, stream_info, timestamp, now_minute) ==
    IF ~query_ok THEN c
    ELSE LET is_live == stream_info # <<>>
             status_data == [timestamp |-> timestamp, is_live |-> is_live,
                             viewer_count |-> IF is_live THEN stream_info[1].viewer_count ELSE 0]
             c1 == IF is_live
                   THEN IF ~c.lm.is_live
                        THEN Tracker_stream_start(c, F, stream_info[1], timestamp)
                        ELSE Tracker_stream_update(c, F, stream_info[1], timestamp, now_minute)
                   ELSE IF c.lm.is_live
                        THEN Tracker_stream_end(c, F, timestamp, now_minute)
                        ELSE c
         IN IF c1.raised THEN [c1 EXCEPT !.raised = FALSE]
            ELSE Tracker_save_stream_status(c1, F, status_data)

----
(* The other scheduled tasks: subscriber_tracker.py, apps/analytics, and *)
(* the methods of the same name of the monolithic tracker               *)

(* the except clause of a task that lets the exception go on *)
LogAndReturn_reraise(c) == c

(* except Exception as e: logger.error(...); return None *)
LogAndReturn(c) == [c EXCEPT !.raised = FALSE]

(* a platform query that resets the subscriber count before it raises *)
QueryRaised_reset(c) == [c EXCEPT !.raised = TRUE, !.lm.subscriber_count = 0]

(* a platform query that raised *)
QueryRaised(c) == [c EXCEPT !.raised = TRUE]

(* get_subscriber_count: sub_response is <<total>>, or <<>> for a reply *)
(* without a total                                                      *)
get_subscriber_count(c, F, query_ok, sub_response, timestamp) ==
    IF ~query_ok THEN LogAndReturn(QueryRaised(c))
    ELSE IF sub_response = <<>> THEN c
    ELSE LET c1 == [c EXCEPT !.lm.subscriber_count = sub_response[1]]
         IN LogAndReturn(save_to_s3(c1, F, <<"subscribers", "count">>,
                                    [timestamp |-> timestamp,
                                     subscriber_count |-> sub_response[1]]))

Tracker_get_subscriber_count(c, F, query_ok, sub_response, timestamp) ==
    IF ~query_ok THEN LogAndReturn(QueryRaised(c))
    ELSE IF sub_response = <<>> THEN c
    ELSE LET c1 == [c EXCEPT !.lm.subscriber_count = sub_response[1]]
         IN LogAndReturn(put_object(c1, F, <<"subscribers", "count">>,
                                    [timestamp |-> timestamp,
                                     subscriber_count |-> sub_response[1]]))

(* seq[:n] *)
FirstN(s, n) == IF Len(s) <= n THEN s ELSE SubSeq(s, 1, n)

(* the analysis of a reply of at most one clip: sorting by view_count     *)
(* leaves the list as it is and the clip's game is the most popular one   *)
ClipAnalysis(clip_data) ==
    [most_popular_game |-> clip_data[1].game_id, top_5_clips |-> FirstN(clip_data, 5)]

(* analyze_top_clips: clips is the data list of the reply *)
analyze_top_clips(c, F, query_ok, clips) ==
    IF ~query_ok THEN LogAndReturn(QueryRaised(c))
    ELSE IF clips = <<>> THEN c
    ELSE LET c1 == save_to_s3(c, F, <<"clip_analysis", "top_clips">>, clips)
         IN LogAndReturn(save_to_s3(c1, F, <<"clip_analysis", "analysis">>,
                                    ClipAnalysis(clips)))

Tracker_analyze_top_clips(c, F, query_ok, clips) ==
    IF ~query_ok THEN LogAndReturn(QueryRaised(c))
    ELSE IF clips = <<>> THEN c
    ELSE LET c1 == put_object(c, F, <<"clip_analysis", "top_clips">>, clips)
         IN IF c1.raised THEN LogAndReturn(c1)
            ELSE LogAndReturn(put_object(c1, F, <<"clip_analysis", "analysis">>,
                                         ClipAnalysis(clips)))

(* the daily file of the day before, which the report reads *)
YesterdayKey(cat) == <<"daily_yesterday", cat>>

(* the four loads of generate_daily_report, each in its own try/except:   *)
(* the categories whose file of yesterday could be read and has rows      *)
LoadedForReport(c, F) ==
    LET order == <<"chat_metrics", "viewer_stats", "subscribers", "stream_metrics">>
    IN {order[i] : i \in {j \in 1..4 :
                              /\ YesterdayKey(order[j]) \in DOMAIN c.s3
                              /\ (c.k + j) \notin F
                              /\ c.s3[YesterdayKey(order[j])] # <<>>}}

(* generate_daily_report: the report object is written with save_to_s3 *)
generate_daily_report(c, F) ==
    LET report == [summary |-> LoadedForReport(c, F)]
        c1 == [c EXCEPT !.k = @ + 4]
    IN LogAndReturn(save_to_s3(c1, F, <<"reports">>, report))

Tracker_generate_daily_report(c, F) ==
    LET report == [summary |-> LoadedForReport(c, F)]
        c1 == [c EXCEPT !.k = @ + 4]
    IN LogAndReturn(put_object(c1, F, <<"reports">>, report))

----
(* Environment *)

(* What the environment may still do: numbers of chat messages while      *)
(* offline and while live, messages per minute bucket, minute ticks, ticks *)
(* of a minute without message, subscriptions, raids, stream starts, polls *)
(* of a live and of an offline stream, event handler runs with failing S3  *)
(* calls, polls with failing S3 calls or a failing platform query, and     *)
(* inputs other than the default value.                                    *)
Budget(chat_off, chat_live, per_minute, ticks, skips, subs, raids, starts, live_polls, off_polls, event_faults, poll_faults, alt, tasks) ==
    [chat_off |-> chat_off, chat_live |-> chat_live, per_minute |-> per_minute,
     ticks |-> ticks, skips |-> skips, subs |-> subs, raids |-> raids,
     starts |-> starts, live_polls |-> live_polls, off_polls |-> off_polls,
     event_faults |-> event_faults, poll_faults |-> poll_faults, alt |-> alt,
     tasks |-> tasks]

(* few messages of two senders around a stream start, a stream end and a *)
(* minute boundary                                                      *)
ScenarioChatters == Budget(MaxChatters, MaxChatters, MaxChatters, 1, 0, 0, 0, 1, 0, 0, 0, 0, MaxChatters, 0)

(* polls with varying viewer counts over up to two streams *)
ScenarioViewers == Budget(0, 0, 0, 0, 0, 0, 0, MaxStarts, MaxViewerPolls, 1, 0, 0, MaxViewerPolls, 0)

(* one event of each kind, with failing S3 calls *)
ScenarioFaults == Budget(1, 1, 1, 0, 0, 1, 0, 1, 1, 0, MaxFaults, MaxFaults, 0, 0)

(* one event of each kind across a minute boundary *)
ScenarioMisc == Budget(1, 0, 1, 1, 1, 1, 1, 0, 0, 1, 0, 0, 0, 1)

(* a burst of chat messages while offline *)
ScenarioChatBurst == Budget(MaxChatBurst, 0, MaxChatBurst, 0, 0, 0, 0, 0, 0, 0, 0, 0, 1, 0)

(* a burst of chat messages during a stream *)
ScenarioLiveChat == Budget(0, MaxLiveChat, MaxLiveChat, 0, 0, 0, 0, 1, 0, 0, 0, 0, 0, 0)

(* a stream with more chat messages than the large-batch threshold, *)
(* and failing S3 calls in a poll                                    *)
ScenarioLargeBatch == Budget(0, MaxLargeBatch, MaxLargeBatch, 0, 0, 0, 0, 1, 0, 0, 0, 1, 0, 0)

(* a burst of subscriptions *)
ScenarioSubBurst == Budget(0, 0, 0, 0, 0, MaxSubBurst, 0, 0, 0, 0, 0, 0, 0, 0)

(* a long stream *)
ScenarioPollBurst == Budget(0, 0, 0, 0, 0, 0, 0, 1, MaxPollBurst, 0, 0, 0, 1, 0)

(* one message a minute over more minutes than chat_activity holds *)
ScenarioMinutes == Budget(MaxMinutes + 1, 0, 1, MaxMinutes, 1, 0, 0, 0, 0, 0, 0, 0, 0, 0)

(* runs of the other scheduled tasks, with failing queries and S3 calls *)
ScenarioTasks == Budget(0, 0, 0, 0, 0, 0, 0, 0, 0, 1, 0, 1, 0, MaxTasks)

(* a stream with enough chat for the size threshold, for the interleaving *)
(* of the chat thread and the scheduler thread                            *)
ScenarioRace == Budget(2, MaxRaceChat, MaxRaceChat + 2, 0, 0, 0, 0, 1, 0, 0, 0, 0, 0, 0)

Scenarios ==
    { ScenarioChatters, ScenarioViewers, ScenarioFaults, ScenarioMisc,
      ScenarioChatBurst, ScenarioLiveChat, ScenarioSubBurst, ScenarioPollBurst,
      ScenarioMinutes, ScenarioTasks }

(* both threads outside the handlers, nothing appended or written yet *)
NoRace == [chat |-> "idle", scheduler |-> "idle", poll_timestamp |-> 0,
           appended |-> {}, written |-> {}, batches |-> <<>>]

(* the EventSub web application before its module is imported: no signing *)
(* secret read, buffer_string = None, no event file, no line in           *)
(* tokens/access.csv, no request answered                                 *)
WebEpoch == 1000
Absent == [present |-> FALSE, text |-> <<>>]
NoSignature == [present |-> FALSE, value |-> [scheme |-> "", key |-> "", msg |-> <<>>]]
NoLine == <<>>
NoRequest == [message_type |-> "", message_id |-> Absent, timestamp |-> Absent,
              signature |-> NoSignature, body |-> <<>>]
OAuthUsers == {"ann", "ben"}
NoWeb == [imported |-> FALSE, twitch_signing_secret |-> "", now |-> WebEpoch,
          files |-> <<>>, requests |-> 0, request |-> NoRequest, status |-> 0,
          buffer_string |-> NoLine, session |-> [u \in OAuthUsers |-> NoLine],
          redirected |-> [u \in OAuthUsers |-> NoLine],
          logins |-> [u \in OAuthUsers |-> 0],
          access_csv |-> <<>>, served |-> <<>>]

DefaultSender == "alice"
DefaultViewerCount == 50

InitWith(impls, scenarios) ==
    /\ impl \in impls
    /\ live_metrics = [is_live |-> FALSE, stream_started_at |-> None,
                       current_viewers |-> 0, peak_viewers |-> 0,
                       subscriber_count |-> 0, new_subs_today |-> 0,
                       total_chat_messages |-> 0, chat_messages_per_minute |-> 0,
                       unique_chatters |-> 0, viewer_retention |-> <<>>,
                       chat_activity |-> <<>>, recent_subscribers |-> <<>>,
                       recent_events |-> <<>>]
    /\ chat_messages = <<>>
    /\ viewer_counts = <<>>
    /\ stream_metrics = <<>>
    /\ subscriber_events = <<>>
    /\ s3 = <<>>
    /\ backup = {}
    /\ clock = 1
    /\ minute = 0
    /\ budget \in scenarios
    /\ obs = [seen_senders |-> {}, reported |-> 0, max_reported |-> 0,
              subscribers |-> <<>>, retention |-> <<>>, activity |-> <<>>]
    /\ last = [op |-> "init", transition |-> "none", faulty |-> FALSE,
               raised |-> FALSE, flushes |-> <<>>, calls |-> 0,
               before |-> [chat |-> 0, viewers |-> 0, streams |-> 0, subs |-> 0,
                           events |-> 0, peak |-> 0]]
    /\ scheduler_thread = "running"
    /\ race = NoRace
    /\ web = NoWeb

Init == InitWith(Impls, Scenarios)

(* the modular tracker in a stream with a large chat batch; the small *)
(* scenarios keep every handler in play                               *)
InitLarge == InitWith({"modular"}, {ScenarioLargeBatch, ScenarioViewers, ScenarioMisc})

(* the program state a handler leaves behind *)
Commit(c) ==
    /\ live_metrics' = c.lm
    /\ chat_messages' = c.chat_messages
    /\ viewer_counts' = c.viewer_counts
    /\ stream_metrics' = c.stream_metrics
    /\ subscriber_events' = c.subscriber_events
    /\ s3' = c.s3
    /\ backup' = c.backup
    /\ clock' = clock + 1

Before == [chat |-> Len(chat_messages), viewers |-> Len(viewer_counts),
           streams |-> Len(stream_metrics), subs |-> Len(subscriber_events),
           events |-> Len(live_metrics.recent_events),
           peak |-> live_metrics.peak_viewers]

Ran(op, transition, F, c) ==
    last' = [op |-> op, transition |-> transition, faulty |-> F # {},
             raised |-> c.raised, flushes |-> c.flushes, calls |-> c.k,
             before |-> Before]

(* the fault patterns the budget still allows *)
EventFaults == IF budget.event_faults > 0 THEN FaultPatterns ELSE {{}}
PollFaults == IF budget.poll_faults > 0 THEN FaultPatterns ELSE {{}}

SpendEvent(b, F) == [b EXCEPT !.event_faults = IF F = {} THEN @ ELSE @ - 1]
SpendPoll(b, F) == [b EXCEPT !.poll_faults = IF F = {} THEN @ ELSE @ - 1]

MinuteHasBucket ==
    \E i \in 1..Len(live_metrics.chat_activity) :
        live_metrics.chat_activity[i].timestamp = minute

MessagesThisMinute ==
    IF MinuteHasBucket
    THEN LET i == CHOOSE x \in 1..Len(live_metrics.chat_activity) :
                      live_metrics.chat_activity[x].timestamp = minute
         IN live_metrics.chat_activity[i].message_count
    ELSE 0

----
(* Actions: one per handler *)

Tick ==
    /\ budget.ticks > 0
    /\ MinuteHasBucket \/ budget.skips > 0
    /\ minute' = minute + 1
    /\ budget' = [budget EXCEPT !.ticks = @ - 1,
                                !.skips = IF MinuteHasBucket THEN @ ELSE @ - 1]
    /\ last' = [last EXCEPT !.op = "tick", !.transition = "none", !.faulty = FALSE,
                            !.raised = FALSE, !.flushes = <<>>, !.calls = 0,
                            !.before = Before]
    /\ UNCHANGED <<impl, live_metrics, chat_messages, viewer_counts, stream_metrics,
                   subscriber_events, s3, backup, clock, obs, scheduler_thread, race, web>>

OnChatMessage ==
    \E sender \in Senders, F \in EventFaults :
        LET field == IF live_metrics.is_live THEN "chat_live" ELSE "chat_off"
            c == IF impl = "modular"
                 THEN on_chat_message(Ctx, F, clock, minute, sender)
                 ELSE Tracker_on_chat_message(Ctx, F, clock, minute, sender)
        IN /\ budget[field] > 0
           /\ MessagesThisMinute < budget.per_minute
           /\ sender = DefaultSender \/ budget.alt > 0
           /\ Commit(c)
           /\ budget' = [SpendEvent(budget, F) EXCEPT
                            ![field] = @ - 1,
                            !.alt = IF sender = DefaultSender THEN @ ELSE @ - 1]
           /\ obs' = [obs EXCEPT
                         !.seen_senders = @ \cup {sender},
                         !.activity = IF MinuteHasBucket THEN @ ELSE Append(@, minute)]
           /\ Ran("on_chat_message", "none", F, c)
           /\ UNCHANGED <<impl, minute, scheduler_thread, race, web>>

OnSubscription ==
    \E F \in EventFaults :
        LET c == IF impl = "modular"
                 THEN on_subscription(Ctx, F, clock, "carol")
                 ELSE Tracker_on_subscription(Ctx, F, clock, "carol")
        IN /\ budget.subs > 0
           /\ Commit(c)
           /\ budget' = [SpendEvent(budget, F) EXCEPT !.subs = @ - 1]
           /\ obs' = [obs EXCEPT !.subscribers = Append(@, clock)]
           /\ Ran("on_subscription", "none", F, c)
           /\ UNCHANGED <<impl, minute, scheduler_thread, race, web>>

OnRaid ==
    \E F \in EventFaults :
        LET c == IF impl = "modular" THEN on_raid(Ctx, F, clock)
                 ELSE Tracker_on_raid(Ctx, F, clock)
        IN /\ budget.raids > 0
           /\ Commit(c)
           /\ budget' = [SpendEvent(budget, F) EXCEPT !.raids = @ - 1]
           /\ Ran("on_raid", "none", F, c)
           /\ UNCHANGED <<impl, minute, obs, scheduler_thread, race, web>>

(* run_scheduler: schedule.run_pending() has no handler of its own, so an *)
(* exception that leaves a job ends the while loop and the thread         *)
RunPending(thread, c) == IF c.raised THEN "terminated" ELSE thread

(* one run of the scheduled status check; stream_info is the data list *)
(* of the platform's reply                                             *)
Poll(transition, F, query_ok, stream_info) ==
    /\ query_ok \/ budget.poll_faults > 0
    /\ scheduler_thread = "running"
    /\ \E c \in {IF impl = "modular"
                 THEN check_stream_status(Ctx, F, query_ok, stream_info, clock, minute)
                 ELSE Tracker_check_stream_status(Ctx, F, query_ok, stream_info, clock, minute)} :
           /\ Commit(c)
           /\ Ran("check_stream_status", IF query_ok THEN transition ELSE "query_failed", F, c)
           /\ scheduler_thread' = RunPending(scheduler_thread, c)
    /\ UNCHANGED <<impl, minute, race, web>>

PollStart ==
    \E v \in ViewerCountValues, tz \in PlatformTz, F \in PollFaults, query_ok \in BOOLEAN :
        /\ ~live_metrics.is_live
        /\ budget.starts > 0
        /\ v = DefaultViewerCount \/ budget.alt > 0
        /\ query_ok \/ F = {}
        /\ Poll("start", F, query_ok,
                <<[viewer_count |-> v, started_at |-> [minute |-> minute, tz |-> tz]]>>)
        /\ budget' = [SpendPoll(budget, IF query_ok THEN F ELSE {0}) EXCEPT
                         !.starts = @ - 1,
                         !.alt = IF v = DefaultViewerCount THEN @ ELSE @ - 1]
        /\ obs' = IF query_ok
                  THEN [obs EXCEPT !.reported = v, !.max_reported = v]
                  ELSE obs

PollLive ==
    \E v \in ViewerCountValues, F \in PollFaults, query_ok \in BOOLEAN :
        /\ live_metrics.is_live
        /\ budget.live_polls > 0
        /\ v = DefaultViewerCount \/ budget.alt > 0
        /\ query_ok \/ F = {}
        /\ Poll("live", F, query_ok,
                <<[viewer_count |-> v, started_at |-> live_metrics.stream_started_at]>>)
        /\ budget' = [SpendPoll(budget, IF query_ok THEN F ELSE {0}) EXCEPT
                         !.live_polls = @ - 1,
                         !.alt = IF v = DefaultViewerCount THEN @ ELSE @ - 1]
        /\ obs' = IF query_ok
                  THEN [obs EXCEPT !.reported = v,
                                   !.max_reported = Max(@, v),
                                   !.retention = IF impl = "monolithic"
                                                 THEN Append(@, clock) ELSE @]
                  ELSE obs

PollEnd ==
    \E F \in PollFaults :
        /\ live_metrics.is_live
        /\ Poll("end", F, TRUE, <<>>)
        /\ budget' = SpendPoll(budget, F)
        /\ UNCHANGED obs

PollOffline ==
    \E F \in PollFaults :
        /\ ~live_metrics.is_live
        /\ budget.off_polls > 0
        /\ Poll("offline", F, TRUE, <<>>)
        /\ budget' = [SpendPoll(budget, F) EXCEPT !.off_polls = @ - 1]
        /\ UNCHANGED obs

(* one run of a scheduled task other than the status check *)
Task(op, F, query_ok, result) ==
    /\ budget.tasks > 0
    /\ scheduler_thread = "running"
    /\ query_ok \/ (F = {} /\ budget.poll_faults > 0)
    /\ \E c \in {result} :
           /\ Commit(c)
           /\ Ran(op, IF query_ok THEN "none" ELSE "query_failed", F, c)
           /\ scheduler_thread' = RunPending(scheduler_thread, c)
    /\ budget' = [SpendPoll(budget, IF query_ok THEN F ELSE {0}) EXCEPT !.tasks = @ - 1]
    /\ UNCHANGED <<impl, minute, obs, race, web>>

GetSubscriberCount ==
    \E F \in PollFaults, query_ok \in BOOLEAN, sub_response \in SubResponses :
        Task("get_subscriber_count", F, query_ok,
             IF impl = "modular"
             THEN get_subscriber_count(Ctx, F, query_ok, sub_response, clock)
             ELSE Tracker_get_subscriber_count(Ctx, F, query_ok, sub_response, clock))

AnalyzeTopClips ==
    \E F \in PollFaults, query_ok \in BOOLEAN, clips \in ClipReplies :
        Task("analyze_top_clips", F, query_ok,
             IF impl = "modular" THEN analyze_top_clips(Ctx, F, query_ok, clips)
             ELSE Tracker_analyze_top_clips(Ctx, F, query_ok, clips))

GenerateDailyReport ==
    \E F \in PollFaults :
        Task("generate_daily_report", F, TRUE,
             IF impl = "modular" THEN generate_daily_report(Ctx, F)
             ELSE Tracker_generate_daily_report(Ctx, F))

Next ==
    \/ Tick
    \/ OnChatMessage
    \/ OnSubscription
    \/ OnRaid
    \/ PollStart
    \/ PollLive
    \/ PollEnd
    \/ PollOffline
    \/ GetSubscriberCount
    \/ AnalyzeTopClips
    \/ GenerateDailyReport

Spec == Init /\ [][Next]_vars

SpecLarge == InitLarge /\ [][Next]_vars

----
(* The chat thread and the scheduler thread (StreamMonitor variant).      *)
(* on_chat_message runs on the chat event loop, check_stream_status in    *)
(* the thread of run_scheduler under its own asyncio.run; chat_messages   *)
(* is one list object shared without a lock.  A thread can be preempted   *)
(* wherever it waits for S3, so a step ends with each S3 call that        *)
(* follows an access to the list.  Every S3 call succeeds here.           *)

Threads == {"chat", "scheduler"}

InitRace == InitWith({"modular"}, {ScenarioRace})

(* the timestamps of the records of a list of chat records *)
RecordsOf(messages) == {messages[i].timestamp : i \in 1..Len(messages)}

(* where a thread goes when save_chat_metrics returns *)
AfterFlush(t) == IF t = "chat" THEN "idle" ELSE "status"

(* the stream start, taken while the scheduler thread is between polls *)
RaceStart ==
    /\ race.scheduler = "idle"
    /\ PollStart

(* on_chat_message, from the append to the chat_activity update *)
ChatAppend ==
    LET field == IF live_metrics.is_live THEN "chat_live" ELSE "chat_off"
    IN /\ race.chat = "idle"
       /\ budget[field] > 0
       /\ \E c \in {ChatMessageRecorded(Ctx, {}, clock, minute, DefaultSender)} :
              Commit(c)
       /\ budget' = [budget EXCEPT ![field] = @ - 1]
       /\ race' = [race EXCEPT !.chat = "appended", !.appended = @ \cup {clock}]
       /\ UNCHANGED <<impl, minute, obs, last, scheduler_thread, web>>

(* on_chat_message, the rest: messages per minute, then the size test *)
ChatCheck ==
    /\ race.chat = "appended"
    /\ \E c \in {UpdateMessagesPerMinute(Ctx, minute)} :
           /\ live_metrics' = c.lm
           /\ race' = [race EXCEPT !.chat =
                           IF ~c.raised /\ Len(chat_messages) >= ChatFlushThreshold
                           THEN "flush" ELSE "idle"]
    /\ UNCHANGED <<impl, chat_messages, viewer_counts, stream_metrics, subscriber_events,
                   s3, backup, clock, minute, budget, obs, last, scheduler_thread, web>>

(* check_stream_status finds the stream ended: _handle_stream_end up to *)
(* its call of save_chat_metrics                                        *)
StreamEndBegin ==
    /\ race.scheduler = "idle"
    /\ live_metrics.is_live
    /\ \E c \in {stream_end_before_chat_flush(Ctx, {}, clock, minute)} :
           Commit(c)
    /\ race' = [race EXCEPT !.scheduler = "flush", !.poll_timestamp = clock]
    /\ UNCHANGED <<impl, minute, budget, obs, last, scheduler_thread, web>>

(* save_chat_metrics: the emptiness test and the metrics object *)
FlushBegin(t) ==
    /\ race[t] = "flush"
    /\ IF chat_messages = <<>>
       THEN /\ race' = [race EXCEPT ![t] = AfterFlush(t)]
            /\ s3' = s3
       ELSE /\ race' = [race EXCEPT ![t] = "snapshot"]
            /\ s3' = save_to_s3(Ctx, {}, <<"metrics", "chat_metrics">>,
                                [message_count |-> Len(chat_messages),
                                 unique_chatters |-> UniqueChatters(chat_messages)]).s3
    /\ UNCHANGED <<impl, live_metrics, chat_messages, viewer_counts, stream_metrics,
                   subscriber_events, backup, clock, minute, budget, obs, last,
                   scheduler_thread, web>>

(* save_chat_metrics: json.dumps(chat_messages) and the raw-batch put *)
FlushSnapshot(t) ==
    /\ race[t] = "snapshot"
    /\ s3' = save_to_s3(Ctx, {}, SnapshotKey("chat_metrics"), chat_messages).s3
    /\ race' = [race EXCEPT ![t] = "csv",
                            !.written = @ \cup RecordsOf(chat_messages),
                            !.batches = Append(@, RecordsOf(chat_messages))]
    /\ UNCHANGED <<impl, live_metrics, chat_messages, viewer_counts, stream_metrics,
                   subscriber_events, backup, clock, minute, budget, obs, last,
                   scheduler_thread, web>>

(* save_chat_metrics: pd.DataFrame(chat_messages), the CSV put and the *)
(* daily file                                                           *)
FlushCsv(t) ==
    /\ race[t] = "csv"
    /\ s3' = append_to_daily_file(
                 save_to_s3(Ctx, {}, CsvKey("chat_metrics"), to_csv(chat_messages, TRUE)),
                 {}, "chat_metrics", chat_messages).s3
    /\ race' = [race EXCEPT ![t] = "clear",
                            !.written = @ \cup RecordsOf(chat_messages)]
    /\ UNCHANGED <<impl, live_metrics, chat_messages, viewer_counts, stream_metrics,
                   subscriber_events, backup, clock, minute, budget, obs, last,
                   scheduler_thread, web>>

(* save_chat_metrics: chat_messages.clear() *)
FlushClear(t) ==
    /\ race[t] = "clear"
    /\ chat_messages' = <<>>
    /\ race' = [race EXCEPT ![t] = AfterFlush(t)]
    /\ UNCHANGED <<impl, live_metrics, viewer_counts, stream_metrics, subscriber_events,
                   s3, backup, clock, minute, budget, obs, last, scheduler_thread, web>>

(* check_stream_status after _handle_stream_end: the status snapshot *)
SchedStatus ==
    /\ race.scheduler = "status"
    /\ s3' = save_stream_status(Ctx, {}, [timestamp |-> race.poll_timestamp,
                                          is_live |-> FALSE, viewer_count |-> 0]).s3
    /\ race' = [race EXCEPT !.scheduler = "idle"]
    /\ UNCHANGED <<impl, live_metrics, chat_messages, viewer_counts, stream_metrics,
                   subscriber_events, backup, clock, minute, budget, obs, last,
                   scheduler_thread, web>>

NextRace ==
    \/ RaceStart
    \/ ChatAppend
    \/ ChatCheck
    \/ StreamEndBegin
    \/ \E t \in Threads : FlushBegin(t)
    \/ \E t \in Threads : FlushSnapshot(t)
    \/ \E t \in Threads : FlushCsv(t)
    \/ \E t \in Threads : FlushClear(t)
    \/ SchedStatus

SpecRace == InitRace /\ [][NextRace]_vars

----
(* The EventSub web application (apps/TwitchEventsSubs.py): the webhook    *)
(* endpoint and the OAuth routes.  A header is absent (headers.get gives   *)
(* None) or a text; a text is a sequence of tokens and + is \o.            *)

SkewLimit == 600
SigningSecrets == {"", "s3cr3t"}
ForeignKey == "guess"
SubscriptionTypes == {"channel.follow", "stream.online", "user.update"}

(* the keys of the paths dict that the model keeps *)
EventPaths == {"channel.follow", "stream.online"}

(* nothing of the tracker runs while the web application is looked at *)
ScenarioIdle == Budget(0, 0, 0, 0, 0, 0, 0, 0, 0, 0, 0, 0, 0, 0)

InitWeb == InitWith({"modular"}, {ScenarioIdle})

Header(kind, value) == [present |-> TRUE, text |-> <<[kind |-> kind, value |-> value]>>]

Abs(n) == IF n < 0 THEN 0 - n ELSE n

(* int(text): ValueError for a text that is not a decimal number, such as *)
(* an RFC 3339 date                                                       *)
IntOf(text) ==
    IF text[1].kind = "digits" THEN [ValueError |-> FALSE, value |-> text[1].value]
    ELSE [ValueError |-> TRUE, value |-> 0]

(* 'sha256=' + hmac.new(key, msg, sha256).hexdigest() *)
HmacSha256(key, msg) == [scheme |-> "sha256", key |-> key, msg |-> msg]

(* request.json: the body text {"subscription": {"type": t}, "event": e} *)
ParseJson(body) == [subscription_type |-> body[1].kind, event |-> body[1].value]

(* verify_twitch_signature: True, or the exception that leaves it.  int()  *)
(* of an absent timestamp and message_id + timestamp with an absent id     *)
(* raise TypeError                                                         *)
verify_twitch_signature(secret, now, request_data, signature, message_id, timestamp) ==
    IF secret = "" THEN "ValueError"
    ELSE IF ~timestamp.present THEN "TypeError"
    ELSE IF IntOf(timestamp.text).ValueError THEN "ValueError"
    ELSE IF Abs(now - IntOf(timestamp.text).value) > SkewLimit THEN "ValueError"
    ELSE IF ~message_id.present THEN "TypeError"
    ELSE IF signature # [present |-> TRUE,
                         value |-> HmacSha256(secret, message_id.text \o timestamp.text
                                                          \o request_data)]
    THEN "ValueError"
    ELSE "True"

(* webhook_callback: only ValueError is caught and answered with 403; any *)
(* other exception leaves the view and the server answers 500             *)
webhook_callback(w, request) ==
    LET verdict == verify_twitch_signature(w.twitch_signing_secret, w.now, request.body,
                                           request.signature, request.message_id,
                                           request.timestamp)
        data == ParseJson(request.body)
        answered == [w EXCEPT !.request = request, !.requests = @ + 1]
    IN IF verdict = "ValueError" THEN [answered EXCEPT !.status = 403]
       ELSE IF verdict = "TypeError" THEN [answered EXCEPT !.status = 500]
       ELSE IF request.message_type = "webhook_callback_verification"
       THEN [answered EXCEPT !.status = 200]
       ELSE IF data.subscription_type \in EventPaths
       THEN [answered EXCEPT !.status = 200,
                             !.files = Store(@, <<data.subscription_type, w.now>>,
                                             data.event)]
       ELSE [answered EXCEPT !.status = 200]

(* the requests that reach the endpoint: from the platform, which signs    *)
(* with the secret, and from anyone else, who leaves headers out, signs    *)
(* with another key, or replays a signature made for the current second    *)
Skews == {0 - (SkewLimit + 1), 0 - SkewLimit, 0, SkewLimit, SkewLimit + 1}
TimestampHeaders(now) ==
    {Absent, Header("rfc3339", 0)} \cup {Header("digits", now + d) : d \in Skews}
MessageIdHeaders == {Absent, Header("id", 1)}
Bodies == {<<[kind |-> t, value |-> 1]>> : t \in SubscriptionTypes}
SignatureHeaders(secret, now, id, ts, body) ==
    {NoSignature} \cup
    {[present |-> TRUE, value |-> HmacSha256(k, id.text \o t.text \o body)] :
         k \in {secret, ForeignKey}, t \in {ts, Header("digits", now)}}

WebhookRequests(secret, now) ==
    UNION {{[message_type |-> mt, message_id |-> id, timestamp |-> ts,
             signature |-> sig, body |-> body] :
                sig \in SignatureHeaders(secret, now, id, ts, body)} :
           mt \in {"notification", "webhook_callback_verification"},
           id \in MessageIdHeaders, ts \in TimestampHeaders(now), body \in Bodies}

(* module import: twitch_signing_secret = os.environ.get(...) *)
ImportModule ==
    /\ ~web.imported
    /\ \E secret \in SigningSecrets :
           web' = [web EXCEPT !.imported = TRUE, !.twitch_signing_secret = secret]
    /\ UNCHANGED <<impl, live_metrics, chat_messages, viewer_counts, stream_metrics,
                   subscriber_events, s3, backup, clock, minute, budget, obs, last,
                   scheduler_thread, race>>

(* time.time() moves on by a second *)
WebClock ==
    /\ web.imported
    /\ web.now < WebEpoch + MaxWebClock
    /\ web' = [web EXCEPT !.now = @ + 1]
    /\ UNCHANGED <<impl, live_metrics, chat_messages, viewer_counts, stream_metrics,
                   subscriber_events, s3, backup, clock, minute, budget, obs, last,
                   scheduler_thread, race>>

(* POST /webhooks/callback *)
WebhookCallback ==
    /\ web.imported
    /\ web.requests < MaxWebRequests
    /\ \E request \in WebhookRequests(web.twitch_signing_secret, web.now) :
           web' = webhook_callback(web, request)
    /\ UNCHANGED <<impl, live_metrics, chat_messages, viewer_counts, stream_metrics,
                   subscriber_events, s3, backup, clock, minute, budget, obs, last,
                   scheduler_thread, race>>

NextWebhook ==
    \/ ImportModule
    \/ WebClock
    \/ WebhookCallback

SpecWebhook == InitWeb /\ [][NextWebhook]_vars

(* The OAuth routes.  A user's browser is sent to /auth/twitch/callback by *)
(* the platform and follows the redirect to /success; requests of other    *)
(* browsers may be served in between.                                      *)

(* token.get('refresh_token', '') of a reply without a refresh token *)
NoRefresh == [user |-> "", serial |-> 0]

(* the tokens the platform issues for the n-th login of a user *)
AccessToken(u, n) == [user |-> u, serial |-> n]
RefreshToken(u, n) == [user |-> u, serial |-> n + MaxLogins]

(* f"{profile['login']},{token['access_token']},{token.get('refresh_token', '')}" *)
BufferLine(login, access_token, refresh_token) == <<login, access_token, refresh_token>>

(* auth_twitch_callback: the session of the requesting browser and the *)
(* module global buffer_string are set, the reply redirects to /success *)
auth_twitch_callback(w, u, access_token, refresh_token) ==
    [w EXCEPT !.session[u] = BufferLine(u, access_token, refresh_token),
              !.buffer_string = BufferLine(u, access_token, refresh_token),
              !.logins[u] = @ + 1,
              !.redirected[u] = BufferLine(u, access_token, refresh_token),
              !.status = 302]

(* success: buffer_string + os.linesep is appended to tokens/access.csv; *)
(* with buffer_string = None the + raises TypeError                      *)
success(w, u) ==
    IF w.buffer_string = NoLine THEN [w EXCEPT !.status = 500]
    ELSE [w EXCEPT !.access_csv = Append(@, w.buffer_string),
                   !.served = Append(@, w.redirected[u]),
                   !.redirected[u] = NoLine,
                   !.status = 200]

(* GET /auth/twitch/callback of the browser of user u *)
AuthCallback ==
    /\ web.imported
    /\ \E u \in OAuthUsers, with_refresh \in BOOLEAN :
           /\ web.logins[u] < MaxLogins
           /\ web.redirected[u] = NoLine
           /\ web' = auth_twitch_callback(web, u, AccessToken(u, web.logins[u] + 1),
                                          IF with_refresh
                                          THEN RefreshToken(u, web.logins[u] + 1)
                                          ELSE NoRefresh)
    /\ UNCHANGED <<impl, live_metrics, chat_messages, viewer_counts, stream_metrics,
                   subscriber_events, s3, backup, clock, minute, budget, obs, last,
                   scheduler_thread, race>>

(* GET /success of a browser that follows the redirect *)
Success ==
    /\ web.imported
    /\ \E u \in OAuthUsers :
           /\ web.redirected[u] # NoLine
           /\ web' = success(web, u)
    /\ UNCHANGED <<impl, live_metrics, chat_messages, viewer_counts, stream_metrics,
                   subscriber_events, s3, backup, clock, minute, budget, obs, last,
                   scheduler_thread, race>>

NextOAuth ==
    \/ ImportModule
    \/ AuthCallback
    \/ Success

SpecOAuth == InitWeb /\ [][NextOAuth]_vars

(* no handler makes more S3 calls than the fault patterns cover *)
CallsWithinBound == last.calls <= MaxS3Calls

----
(* Properties *)

(* the timestamps of the entries of a bounded sequence, oldest first *)
Timestamps(entries) == [i \in 1..Len(entries) |-> entries[i].timestamp]

(* the n most recently appended entries of a history, oldest first *)
Newest(history, n) ==
    LET m == IF Len(history) < n THEN Len(history) ELSE n
    IN [i \in 1..m |-> history[Len(history) - m + i]]

(* the buffer a category is flushed from *)
Buffer(cat) ==
    CASE cat = "chat_metrics" -> chat_messages
      [] cat = "viewer_stats" -> viewer_counts
      [] cat = "stream_metrics" -> stream_metrics
      [] cat = "subscribers" -> subscriber_events

(* the number of records the buffer held when the flush began *)
BufferedAtFlush(cat) ==
    CASE cat = "chat_metrics" ->
             last.before.chat + (IF last.op = "on_chat_message" THEN 1 ELSE 0)
      [] cat = "viewer_stats" -> last.before.viewers
      [] cat = "stream_metrics" -> last.before.streams
      [] cat = "subscribers" ->
             last.before.subs + (IF last.op = "on_subscription" THEN 1 ELSE 0)

(* C1: after any sequence of chat messages and chat-buffer flushes,       *)
(* unique_chatters equals the number of distinct senders seen over the    *)
(* whole process lifetime.                                                *)
C1_UniqueChattersIsLifetimeCount ==
    live_metrics.unique_chatters = Cardinality(obs.seen_senders)

(* C2: live or offline, a chat message that leaves fewer than 50 records  *)
(* buffered causes no flush; the message that brings the buffer to 50     *)
(* causes exactly one chat-metrics flush with one daily-CSV append and    *)
(* leaves the buffer empty; the buffer never holds 50 or more records     *)
(* after the handler.                                                     *)
C2_ChatFlushAtThreshold ==
    last.op = "on_chat_message" =>
        /\ last.before.chat + 1 < ChatFlushThreshold =>
               /\ last.flushes = <<>>
               /\ Len(chat_messages) = last.before.chat + 1
        /\ last.before.chat + 1 = ChatFlushThreshold =>
               /\ Len(last.flushes) = 1
               /\ last.flushes[1].category = "chat_metrics"
               /\ last.flushes[1].daily_puts = 1
               /\ Len(chat_messages) = 0
        /\ Len(chat_messages) < ChatFlushThreshold

C4_MonitorTracksCurrentAndPeak ==
    (impl = "modular" /\ last.op = "check_stream_status"
        /\ last.transition \in {"start", "live"}) =>
        /\ live_metrics.current_viewers = obs.reported
        /\ live_metrics.peak_viewers = obs.max_reported

(* C5: whenever is_live is true, peak_viewers >= current_viewers.         *)
C5_PeakAtLeastCurrent ==
    live_metrics.is_live => live_metrics.peak_viewers >= live_metrics.current_viewers

(* a live poll reported fewer viewers than the peak of the stream *)
C5_Witness ==
    /\ live_metrics.is_live
    /\ last.op = "check_stream_status" /\ last.transition = "live"
    /\ live_metrics.peak_viewers > live_metrics.current_viewers
    /\ live_metrics.current_viewers = obs.reported

(* C6: viewer_retention holds at most 60, chat_activity at most 30 and    *)
(* recent_subscribers at most 20 entries in every reachable state.        *)
C6_BoundedSequences ==
    /\ Len(live_metrics.viewer_retention) <= ViewerRetentionCap
    /\ Len(live_metrics.chat_activity) <= ChatActivityCap
    /\ Len(live_metrics.recent_subscribers) <= RecentSubscribersCap

(* more minute buckets were appended than chat_activity holds *)
C6_Witness ==
    /\ Len(obs.activity) > ChatActivityCap
    /\ Len(live_metrics.chat_activity) = ChatActivityCap
    /\ last.op = "on_chat_message"

(* C7: recent_events holds at most 100 entries in every reachable state,  *)
(* in particular after more than 100 consecutive chat messages.           *)
C7_RecentEventsBounded ==
    Len(live_metrics.recent_events) <= RecentEventsCap

(* C8: eviction is FIFO: recent_subscribers, viewer_retention and         *)
(* chat_activity always consist of the most recently appended entries     *)
(* (at most 20, 60, 30) in their insertion order.                         *)
C8_FifoEviction ==
    /\ Timestamps(live_metrics.recent_subscribers)
           = Newest(obs.subscribers, RecentSubscribersCap)
    /\ Timestamps(live_metrics.viewer_retention)
           = Newest(obs.retention, ViewerRetentionCap)
    /\ Timestamps(live_metrics.chat_activity)
           = Newest(obs.activity, ChatActivityCap)

(* a sample was appended to a full viewer_retention *)
C8_Witness ==
    /\ Len(obs.retention) > ViewerRetentionCap
    /\ last.op = "check_stream_status" /\ last.transition = "live"
    /\ live_metrics.viewer_retention[ViewerRetentionCap].viewer_count = obs.reported

(* C9: in chat_handler, every subscription flushes the subscriber buffer  *)
(* without threshold: the flushed batch is the one record just appended   *)
(* and the buffer is empty whenever no handler is running.                *)
C9_SubscriptionAlwaysFlushes ==
    impl = "modular" =>
        /\ subscriber_events = <<>>
        /\ last.op = "on_subscription" =>
               /\ Len(last.flushes) = 1
               /\ last.flushes[1].category = "subscribers"
               /\ Len(last.flushes[1].batch) = 1
               /\ last.flushes[1].cleared

(* a subscription was handled while S3 calls failed *)
C9_Witness ==
    /\ impl = "modular"
    /\ last.op = "on_subscription"
    /\ last.faulty
    /\ live_metrics.new_subs_today = 1

DailyRecords(objects, cat) ==
    IF DailyKey(cat) \in DOMAIN objects
    THEN {line.timestamp : line \in {l \in Range(objects[DailyKey(cat)]) : l.kind = "row"}}
    ELSE {}

(* C11: the daily consolidated CSV of a category accumulates: after a     *)
(* flush whose S3 calls all succeed it holds every record of that flush,  *)
(* and no record it held before is missing after a later append.          *)
C11_DailyFileAccumulates ==
    /\ [](\A i \in 1..Len(last.flushes) :
              (~last.faulty /\ last.flushes[i].cleared) =>
                  \A j \in 1..Len(last.flushes[i].batch) :
                      last.flushes[i].batch[j].timestamp
                          \in DailyRecords(s3, last.flushes[i].category))
    /\ [][\A cat \in Categories :
              DailyRecords(s3, cat) \subseteq DailyRecords(s3', cat)]_vars

(* C12: a flush whose S3 calls all succeed puts, as body of the daily     *)
(* object, all rows of the batch without header when the object existed   *)
(* and the header followed by all rows when it did not.                   *)
C12_DailyBodyIsWholeBatch ==
    [][\A i \in 1..Len(last'.flushes) :
           LET r == last'.flushes[i]
           IN (~last'.faulty /\ r.cleared) =>
                  s3'[DailyKey(r.category)] =
                      IF DailyKey(r.category) \in DOMAIN s3
                      THEN CsvRows(r.batch)
                      ELSE <<CsvHeader>> \o CsvRows(r.batch)]_vars

(* the events stored as per-event JSON objects *)
RawEvents == IF <<"raw_events">> \in DOMAIN s3 THEN s3[<<"raw_events">>] ELSE {}

(* C13: with data_storage.save_event_to_s3, every chat, subscription and  *)
(* raid event that was handled is recorded in S3 or in the local backup.  *)
C13_EventInS3OrBackup ==
    impl = "modular" =>
        \A i \in 1..Len(live_metrics.recent_events) :
            LET e == live_metrics.recent_events[i]
            IN e.type \in {"chat", "subscription", "raid"} =>
                   e.timestamp \in RawEvents \cup backup

StatusLog(objects) == IF StatusKey \in DOMAIN objects THEN objects[StatusKey] ELSE <<>>

(* C15: every poll whose query and S3 calls succeed, whatever transition  *)
(* it takes, leaves its own status snapshot as the newest entry of the    *)
(* per-day status log.                                                    *)
C15_EveryPollWritesStatus ==
    (last.op = "check_stream_status" /\ ~last.faulty
        /\ last.transition \in {"start", "live", "end", "offline"}) =>
        /\ StatusLog(s3) # <<>>
        /\ StatusLog(s3)[Len(StatusLog(s3))].timestamp = clock - 1

(* C16: the status log is append-only: a step that changes it stores the  *)
(* previous array with one snapshot appended, also when S3 calls fail.    *)
C16_StatusLogAppendOnly ==
    [][StatusLog(s3') # StatusLog(s3) =>
           /\ Len(StatusLog(s3')) = Len(StatusLog(s3)) + 1
           /\ SubSeq(StatusLog(s3'), 1, Len(StatusLog(s3))) = StatusLog(s3)]_vars

(* C17: a poll that finds a stream with viewer count v while is_live was  *)
(* false sets is_live, stores the reported start time, sets               *)
(* current_viewers = peak_viewers = v and appends exactly one stream      *)
(* entry to recent_events.                                                *)
C17_StreamStartResetsMetrics ==
    (last.op = "check_stream_status" /\ last.transition = "start") =>
        /\ live_metrics.is_live
        /\ live_metrics.stream_started_at = [minute |-> minute, tz |-> "Z"]
        /\ live_metrics.current_viewers = obs.reported
        /\ live_metrics.peak_viewers = obs.reported
        /\ Len(live_metrics.recent_events) = last.before.events + 1
        /\ live_metrics.recent_events[Len(live_metrics.recent_events)]
               = [timestamp |-> clock - 1, type |-> "stream"]

(* a stream started with fewer viewers than the peak of the stream before *)
C17_Witness ==
    /\ last.op = "check_stream_status" /\ last.transition = "start"
    /\ last.before.peak > obs.reported
    /\ live_metrics.peak_viewers = obs.reported
    /\ live_metrics.is_live

(* C18: no scheduled task lets an exception out: after every run of       *)
(* check_stream_status, get_subscriber_count, analyze_top_clips and       *)
(* generate_daily_report, also with a failing query or failing S3 calls,  *)
(* the scheduler thread is still running.                                 *)
C18_SchedulerNeverStops ==
    /\ scheduler_thread = "running"
    /\ last.op \in {"check_stream_status", "get_subscriber_count",
                    "analyze_top_clips", "generate_daily_report"} => ~last.raised

(* a scheduled task other than the poll ran into a failure *)
C18_Witness ==
    /\ last.op \in {"get_subscriber_count", "analyze_top_clips", "generate_daily_report"}
    /\ (last.transition = "query_failed" \/ last.faulty)
    /\ budget.tasks = 0
    /\ scheduler_thread = "running"

(* a handler appended one record to the buffer of a category: the buffer  *)
(* is one longer, or a flush took the batch with the new record           *)
AppendedOne(cat) ==
    \/ Len(Buffer(cat)) = BufferedAtFlush(cat) + 1
    \/ \E i \in 1..Len(last.flushes) :
           /\ last.flushes[i].category = cat
           /\ Len(last.flushes[i].batch) = BufferedAtFlush(cat) + 1

(* the poll that ran last left its sample as newest entry of viewer_retention *)
SampledRetention ==
    /\ live_metrics.viewer_retention # <<>>
    /\ live_metrics.viewer_retention[Len(live_metrics.viewer_retention)].timestamp
           = clock - 1

(* C19: every poll of StreamMonitor that reports an active stream while   *)
(* is_live is already true appends one sample to viewer_retention and one *)
(* record to each of viewer_counts and stream_metrics.                    *)
C19_MonitorLivePollAppends ==
    (impl = "modular" /\ last.op = "check_stream_status" /\ last.transition = "live") =>
        /\ SampledRetention
        /\ AppendedOne("viewer_stats")
        /\ AppendedOne("stream_metrics")

(* C20: in the monolithic tracker, with stream_started_at ending in 'Z',  *)
(* every LIVE -> LIVE poll whose S3 calls succeed appends one record to   *)
(* viewer_counts and one to stream_metrics.                               *)
C20_TrackerLivePollAppends ==
    (impl = "monolithic" /\ last.op = "check_stream_status"
        /\ last.transition = "live" /\ ~last.faulty
        /\ live_metrics.stream_started_at.tz = "Z") =>
        /\ AppendedOne("viewer_stats")
        /\ AppendedOne("stream_metrics")

C22_FailedQueryChangesNothing ==
    [][last'.transition = "query_failed" =>
           /\ last'.op = "check_stream_status" =>
                  /\ live_metrics' = live_metrics
                  /\ chat_messages' = chat_messages
                  /\ viewer_counts' = viewer_counts
                  /\ stream_metrics' = stream_metrics
                  /\ subscriber_events' = subscriber_events
           /\ last'.op = "get_subscriber_count" =>
                  live_metrics'.subscriber_count = live_metrics.subscriber_count
           /\ last'.op \in {"check_stream_status", "get_subscriber_count"} =>
                  /\ last'.calls = 0
                  /\ s3' = s3
                  /\ ~last'.raised]_vars

(* the query of a poll failed during a stream with chat records buffered *)
C22_Witness ==
    /\ last.op = "check_stream_status" /\ last.transition = "query_failed"
    /\ live_metrics.is_live
    /\ chat_messages # <<>>
    /\ Len(chat_messages) = last.before.chat

(* C23: no chat record is lost under concurrency: every record appended   *)
(* to chat_messages is still in the buffer or is contained in a batch     *)
(* some flush has written.                                                *)
C23_NoChatRecordLost ==
    \A ts \in race.appended : ts \in RecordsOf(chat_messages) \cup race.written

(* C24: no chat record is flushed twice under concurrency: the raw        *)
(* batches written by two flushes have no record in common.               *)
C24_NoChatRecordFlushedTwice ==
    \A i, j \in 1..Len(race.batches) :
        i # j => race.batches[i] \cap race.batches[j] = {}

(* C25: a poll that reports no stream while is_live is false leaves every *)
(* field of live_metrics and all batch buffers as they were; it writes    *)
(* nothing but the status log.                                            *)
C25_OfflinePollOnlyWritesStatus ==
    [][(last'.op = "check_stream_status" /\ last'.transition = "offline") =>
           /\ live_metrics' = live_metrics
           /\ chat_messages' = chat_messages
           /\ viewer_counts' = viewer_counts
           /\ stream_metrics' = stream_metrics
           /\ subscriber_events' = subscriber_events
           /\ backup' = backup
           /\ DOMAIN s3' \subseteq DOMAIN s3 \cup {StatusKey}
           /\ \A key \in DOMAIN s3 \ {StatusKey} : s3'[key] = s3[key]]_vars

(* an offline poll after a stream has ended wrote its status snapshot *)
C25_Witness ==
    /\ last.op = "check_stream_status" /\ last.transition = "offline"
    /\ ~live_metrics.is_live
    /\ live_metrics.peak_viewers > 0
    /\ live_metrics.stream_started_at # None
    /\ live_metrics.recent_events # <<>>
    /\ StatusLog(s3) # <<>>
    /\ StatusLog(s3)[Len(StatusLog(s3))].timestamp = clock - 1

(* C26: chat_activity holds at most one entry per calendar minute: no two *)
(* entries have the same minute timestamp, and a message arriving in a    *)
(* minute that already has an entry adds one to that entry's              *)
(* message_count and appends nothing.                                     *)
C26_OneEntryPerMinute ==
    /\ [](\A i, j \in 1..Len(live_metrics.chat_activity) :
              i # j => live_metrics.chat_activity[i].timestamp
                           # live_metrics.chat_activity[j].timestamp)
    /\ [][(last'.op = "on_chat_message"
             /\ \E i \in 1..Len(live_metrics.chat_activity) :
                    live_metrics.chat_activity[i].timestamp = minute) =>
              \E i \in 1..Len(live_metrics.chat_activity) :
                  /\ live_metrics.chat_activity[i].timestamp = minute
                  /\ live_metrics'.chat_activity =
                         [live_metrics.chat_activity EXCEPT ![i].message_count = @ + 1]]_vars

(* a second message arrived in a minute after an earlier minute had its own entry *)
C26_Witness ==
    /\ last.op = "on_chat_message"
    /\ Len(live_metrics.chat_activity) >= 2
    /\ live_metrics.chat_activity[Len(live_metrics.chat_activity)].timestamp = minute
    /\ live_metrics.chat_activity[Len(live_metrics.chat_activity)].message_count = 2

(* C27: after every check_stream_status whose query succeeded, is_live is *)
(* true exactly when the query reported an active stream, also when an    *)
(* S3 write or a flush of the same poll failed.                           *)
C27_IsLiveFollowsQuery ==
    (last.op = "check_stream_status" /\ last.transition # "query_failed")
        => (live_metrics.is_live <=> last.transition \in {"start", "live"})

(* a stream start of the monolithic tracker whose start marker was not *)
(* stored                                                              *)
C27_Witness ==
    /\ impl = "monolithic"
    /\ last.op = "check_stream_status" /\ last.transition = "start"
    /\ last.faulty
    /\ <<"stream_start">> \notin DOMAIN s3
    /\ live_metrics.is_live

(* the timestamped JSON and CSV snapshots of the batch of a flush are both *)
(* in the store                                                            *)
SnapshotsStored(r) ==
    /\ SnapshotKey(r.category) \in DOMAIN s3
    /\ s3[SnapshotKey(r.category)] = r.batch
    /\ CsvKey(r.category) \in DOMAIN s3
    /\ s3[CsvKey(r.category)] = to_csv(r.batch, TRUE)

(* C28: in the monolithic tracker a batch flush whose JSON or CSV snapshot *)
(* put raised leaves its buffer as it was; the buffer is cleared only when *)
(* both snapshot puts succeeded.                                           *)
C28_TrackerFlushKeepsBufferOnFailure ==
    impl = "monolithic" =>
        \A i \in 1..Len(last.flushes) :
            ~SnapshotsStored(last.flushes[i]) =>
                Buffer(last.flushes[i].category) = last.flushes[i].batch

(* a flush of the monolithic tracker whose JSON snapshot was stored and *)
(* whose CSV snapshot put raised                                        *)
C28_Witness ==
    /\ impl = "monolithic"
    /\ last.faulty
    /\ \E i \in 1..Len(last.flushes) :
           /\ SnapshotKey(last.flushes[i].category) \in DOMAIN s3
           /\ s3[SnapshotKey(last.flushes[i].category)] = last.flushes[i].batch
           /\ ~SnapshotsStored(last.flushes[i])
           /\ Buffer(last.flushes[i].category) # <<>>

(* the signature header of a request is the HMAC, under the signing *)
(* secret, of its message id, its timestamp and its body            *)
SignatureMatches(r, secret) ==
    /\ r.message_id.present /\ r.timestamp.present /\ r.signature.present
    /\ r.signature.value.key = secret
    /\ r.signature.value.msg = r.message_id.text \o r.timestamp.text \o r.body

(* the timestamp header of a request is more than 600 seconds from now *)
TimestampTooFar(r, now) ==
    /\ r.timestamp.present
    /\ r.timestamp.text[1].kind = "digits"
    /\ \/ r.timestamp.text[1].value - now > SkewLimit
       \/ now - r.timestamp.text[1].value > SkewLimit

(* C29: webhook_callback persists an event file only after the signature  *)
(* check succeeded for that request: a request whose HMAC signature does  *)
(* not match, or whose timestamp is more than 600 seconds from the        *)
(* current time, is answered with 403 and writes no file.                 *)
C29_BadRequestsGet403AndWriteNothing ==
    [][web'.requests = web.requests + 1 =>
           ((\/ ~SignatureMatches(web'.request, web.twitch_signing_secret)
             \/ TimestampTooFar(web'.request, web.now))
                => /\ web'.status = 403
                   /\ web'.files = web.files)]_vars

(* the part of C29 about the files alone: a request that writes an event *)
(* file carries a matching signature and a timestamp within 600 seconds  *)
WebhookWritesOnlyVerified ==
    [][web'.files # web.files =>
           /\ SignatureMatches(web'.request, web.twitch_signing_secret)
           /\ ~TimestampTooFar(web'.request, web.now)
           /\ web'.status = 200]_vars

(* C30: under any interleaving of two users' OAuth flows, each line that  *)
(* /success appends to tokens/access.csv holds the login and tokens of    *)
(* the user whose callback redirected to that /success request: no line   *)
(* of another user, none twice, none dropped.                             *)
C30_EachLineBelongsToItsRequest ==
    /\ Len(web.access_csv) = Len(web.served)
    /\ \A i \in 1..Len(web.access_csv) : web.access_csv[i] = web.served[i]

====
